---- MODULE Spec2Model ----
(***************************************************************************)
(* Model of cutils/knspace.py: the KNSpace namespace (a kivy               *)
(* EventDispatcher whose attributes are created lazily as ObjectProperty   *)
(* slots) and the KNSpaceBehavior mixin (name / knspace alias properties). *)
(*                                                                         *)
(* KNSpace leans on three facts of kivy's EventDispatcher, which the code  *)
(* of __setattr__ (the `elif name not in has_applied` branch) is written   *)
(* around:                                                                 *)
(*   - apply_property installs the Property on the CLASS and links it to   *)
(*     the one instance it is called on (storage slot = property default); *)
(*   - an instance constructed later is linked to every property the class *)
(*     has at that time, each slot holding the property's default;         *)
(*   - a Property is a data descriptor: reading it on an instance that is  *)
(*     not linked raises KeyError, and __getattr__ is not consulted.       *)
(***************************************************************************)
EXTENDS Integers, FiniteSets, Sequences, TLC

\* ---------------------------------------------------------------- bounds
MaxClones == 2        \* KNSpace instances that clone() may create besides the root
MaxOps == 4           \* operations in one run

\* ------------------------------------------------------------- universes
Root == 0                         \* module-level knspace = KNSpace()
NoNS == -1                        \* None, as a namespace-valued field
NoAttr == -2                      \* the 0 sentinel of getattr(parent, 'knspace', 0)
CloneTok == -3                    \* the string 'clone' given to the knspace setter
NS == 0..MaxClones                \* identities of KNSpace instances

Ent == {"e1", "e2"}               \* objects with KNSpaceBehavior
Plain == {"o1", "o2", "o3"}         \* structural containers without the behavior
Objs == Ent \cup Plain
Movable == Ent \cup {"o1"}       \* the objects that are moved in the tree
None == "None"

PlainAttrs == {"bind"}            \* a non-property class attribute of KNSpace
Names == {"a", "b"} \cup PlainAttrs
Keys == {"", "parent"}            \* values of knspace_key

Unlinked == "Unlinked"            \* no storage slot for the property on the instance
NoProp == "NoProp"                \* the class has no Property of that name
Absent == "Absent"                \* no entry in the instance __dict__
Method == "Method"                \* the class attribute found for a PlainAttrs name
NoCloneSource == "ValueError: Cannot clone with no namesapce"
NoNamespace == "ValueError: Object has name, but no namespace"
AttributeError == "AttributeError"
KeyError == "KeyError"
Vals == Ent \cup {None}

\* what a plain container exposes as its `knspace` attribute
objknspace == [o \in Plain |-> CASE o = "o1" -> NoAttr
                                 [] o = "o2" -> NoNS
                                 [] OTHER -> Root]

VARIABLES
    nextns,        \* number of KNSpace instances constructed so far
    nsparent,      \* KNSpace.parent
    has_applied,   \* KNSpace.__has_applied
    clsprops,      \* class-level properties of KNSpace: name -> default value
    storage,       \* per-instance property storage: value, or Unlinked
    nsdict,        \* per-instance __dict__ entries for non-property names
    _knspace,      \* KNSpaceBehavior._knspace (explicit override)
    _name,         \* KNSpaceBehavior._name
    knspace_key,   \* KNSpaceBehavior.knspace_key
    last_knspace,  \* KNSpaceBehavior.__last_knspace
    parent,        \* the structural parent attribute of every object
    napplied,      \* apply_property calls made so far, per instance and name
    last,          \* the last operation: what it was and how it ended
    nops           \* operations performed so far

vars == <<nextns, nsparent, has_applied, clsprops, storage, nsdict,
          _knspace, _name, knspace_key, last_knspace, parent, napplied,
          last, nops>>

\* the part of the state that KNSpace methods read and write
K == [cls |-> clsprops, st |-> storage, ha |-> has_applied, dict |-> nsdict,
      par |-> nsparent, next |-> nextns, napp |-> napplied]

Spaces(k) == 0..(k.next - 1)

\* ------------------------------------------------------------- KNSpace
RECURSIVE GetAttr(_, _, _)
\* getattr(ns, name): the class-level Property (a data descriptor) wins, then
\* the instance __dict__, then plain class attributes, then __getattr__.
GetAttr(k, ns, name) ==
    IF k.cls[name] # NoProp
    THEN IF k.st[ns][name] # Unlinked THEN k.st[ns][name] ELSE KeyError
    ELSE IF k.dict[ns][name] # Absent THEN k.dict[ns][name]
    ELSE IF name \in PlainAttrs THEN Method
    ELSE IF k.par[ns] = NoNS THEN AttributeError
    ELSE GetAttr(k, k.par[ns], name)

HasAttr(k, ns, name) == GetAttr(k, ns, name) # AttributeError

\* EventDispatcher.apply_property(name=prop) where prop has default `dflt`
ApplyProperty(k, ns, name, dflt) ==
    [k EXCEPT !.cls[name] = dflt, !.st[ns][name] = dflt,
              !.napp[ns][name] = @ + 1]

\* a store that treats None as "nothing to store"
SetStorage_KeepOnNone(k, ns, name, value) ==
    IF value = None THEN k ELSE [k EXCEPT !.st[ns][name] = value]

\* EventDispatcher.__setattr__ on a linked property
SetStorage(k, ns, name, value) == [k EXCEPT !.st[ns][name] = value]

\* __setattr__ whose middle branch applies the class's property to the
\* instance and forgets the assignment that follows
SetAttr_NoStore(k, ns, name, value) ==
    IF k.cls[name] = NoProp
    THEN IF HasAttr(k, ns, name)
         THEN [k EXCEPT !.dict[ns][name] = value]
         ELSE LET k1 == ApplyProperty(k, ns, name, value)
              IN  [k1 EXCEPT !.ha[ns] = @ \cup {name}]
    ELSE IF name \notin k.ha[ns]
    THEN LET k1 == ApplyProperty(k, ns, name, k.cls[name])
         IN  [k1 EXCEPT !.ha[ns] = @ \cup {name}]
    ELSE SetStorage(k, ns, name, value)

\* KNSpace.__setattr__(name, value)
SetAttr(k, ns, name, value) ==
    IF k.cls[name] = NoProp
    THEN IF HasAttr(k, ns, name)
         THEN [k EXCEPT !.dict[ns][name] = value]
         ELSE LET k1 == ApplyProperty(k, ns, name, value)
              IN  [k1 EXCEPT !.ha[ns] = @ \cup {name}]
    ELSE IF name \notin k.ha[ns]
    THEN LET k1 == ApplyProperty(k, ns, name, k.cls[name])
             k2 == [k1 EXCEPT !.ha[ns] = @ \cup {name}]
         IN  SetStorage(k2, ns, name, value)
    ELSE SetStorage(k, ns, name, value)

\* the reference ns holds for name is the object itself, not its proxy_ref:
\* line 26 passes the value on as it came, and what it writes is the instance
\* __dict__; lines 28, 37 and 40 take value.proxy_ref before they store
Owning(k, ns, name) == k.dict[ns][name] \in Ent

\* a property() that makes a new slot without looking for the one there is
Property_Always(k, ns, name) ==
    LET k1 == ApplyProperty(k, ns, name, None)
    IN  [k1 EXCEPT !.ha[ns] = @ \cup {name}]

\* KNSpace.property(name)
Property(k, ns, name) ==
    IF k.cls[name] # NoProp
    THEN k
    ELSE LET k1 == ApplyProperty(k, ns, name, None)
         IN  [k1 EXCEPT !.ha[ns] = @ \cup {name}]

\* a clone() that hangs the new namespace under the root, not under self
CloneNS_OfRoot(k, src) ==
    LET c == k.next
    IN  [k EXCEPT !.next = c + 1,
                  !.par[c] = Root,
                  !.ha[c] = {},
                  !.st[c] = [n \in Names |->
                               IF k.cls[n] # NoProp THEN k.cls[n] ELSE Unlinked],
                  !.dict[c] = [n \in Names |-> Absent]]

\* KNSpace(parent=src): the new instance is linked to the class's properties
CloneNS(k, src) ==
    LET c == k.next
    IN  [k EXCEPT !.next = c + 1,
                  !.par[c] = src,
                  !.ha[c] = {},
                  !.st[c] = [n \in Names |->
                               IF k.cls[n] # NoProp THEN k.cls[n] ELSE Unlinked],
                  !.dict[c] = [n \in Names |-> Absent]]

\* ------------------------------------------------------ KNSpaceBehavior
RECURSIVE KnspaceOf(_, _), Walk(_, _), Getters(_, _), WalkGetters(_, _)
RECURSIVE Walk_SkipNone(_, _)
\* the value _get_knspace returns for entity x when the overrides are kn
KnspaceOf(kn, x) ==
    IF kn[x] # NoNS THEN kn[x]
    ELSE IF knspace_key[x] = "" THEN Root
    ELSE Walk(kn, parent[x])

\* a walk that gives up at the first object without a knspace attribute
Walk_NoSkip(kn, p) ==
    IF p = None THEN Root
    ELSE LET parent_knspace == IF p \in Ent THEN KnspaceOf(kn, p)
                               ELSE objknspace[p]
         IN  IF parent_knspace # NoAttr THEN parent_knspace ELSE Root

\* a walk that goes on past an object whose knspace attribute is None
Walk_SkipNone(kn, p) ==
    IF p = None THEN Root
    ELSE LET parent_knspace == IF p \in Ent THEN KnspaceOf(kn, p)
                               ELSE objknspace[p]
         IN  IF parent_knspace \notin {NoAttr, NoNS} THEN parent_knspace
             ELSE Walk_SkipNone(kn, parent[p])

\* the while loop of _get_knspace, from the object p on
Walk(kn, p) ==
    IF p = None THEN Root
    ELSE LET parent_knspace == IF p \in Ent THEN KnspaceOf(kn, p)
                               ELSE objknspace[p]
         IN  IF parent_knspace # NoAttr THEN parent_knspace
             ELSE Walk(kn, parent[p])

\* the entities whose _get_knspace runs when x.knspace is read
Getters(kn, x) ==
    IF kn[x] # NoNS \/ knspace_key[x] = "" THEN {x}
    ELSE {x} \cup WalkGetters(kn, parent[x])

WalkGetters(kn, p) ==
    IF p = None THEN {}
    ELSE IF p \in Ent THEN Getters(kn, p)
    ELSE IF objknspace[p] # NoAttr THEN {}
    ELSE WalkGetters(kn, parent[p])

\* a getter that returns without storing what it resolved
ReadCache_Stale(kn, lk, x) == lk

\* __last_knspace of every entity after x.knspace was read: each getter that
\* ran without an explicit override stored what it returned
ReadCache(kn, lk, x) ==
    [y \in Ent |-> IF y \in Getters(kn, x) /\ kn[y] = NoNS
                   THEN KnspaceOf(kn, y) ELSE lk[y]]

\* the state the two setters work on
S == [k |-> K, kn |-> _knspace, nm |-> _name, lk |-> last_knspace]

Out(k, kn, nm, lk, err) == [k |-> k, kn |-> kn, nm |-> nm, lk |-> lk, err |-> err]

\* a setter that leaves the old binding in place
ResetOld_Skip(k, ns, name) == k

\* the first step of both setters: reset the name in the current namespace
ResetOld(k, ns, name) ==
    IF name # "" /\ ns # NoNS THEN SetAttr(k, ns, name, None) ELSE k

\* KNSpaceBehavior._set_name(value) on entity e
SetNameOp(s, e, value) ==
    LET old_name == s.nm[e]
        knspace == KnspaceOf(s.kn, e)
        lk1 == ReadCache(s.kn, s.lk, e)
        k1 == ResetOld(s.k, knspace, old_name)
        nm1 == [s.nm EXCEPT ![e] = value]
    IN  IF value = "" THEN Out(k1, s.kn, nm1, lk1, "ok")
        ELSE IF knspace # NoNS
        THEN Out(SetAttr(k1, knspace, value, e), s.kn, nm1, lk1, "ok")
        ELSE Out(k1, s.kn, nm1, lk1, NoNamespace)

\* KNSpaceBehavior._set_knspace(value) on entity e
SetKnspaceOp(s, e, value) ==
    LET name == s.nm[e]
        knspace == KnspaceOf(s.kn, e)
        lk1 == ReadCache(s.kn, s.lk, e)
        k1 == ResetOld(s.k, knspace, name)
    IN  IF value = CloneTok /\ knspace = NoNS
        THEN Out(k1, s.kn, s.nm, lk1, NoCloneSource)
        ELSE LET k2 == IF value = CloneTok THEN CloneNS(k1, knspace) ELSE k1
                 v == IF value = CloneTok THEN k1.next ELSE value
                 kn1 == [s.kn EXCEPT ![e] = v]
                 lk2 == [lk1 EXCEPT ![e] = v]
             IN  IF name = "" THEN Out(k2, kn1, s.nm, lk2, "ok")
                 ELSE LET knspace1 == KnspaceOf(kn1, e)
                          lk3 == ReadCache(kn1, lk2, e)
                      IN  IF knspace1 = NoNS
                          THEN Out(k2, kn1, s.nm, lk3, NoNamespace)
                          ELSE Out(SetAttr(k2, knspace1, name, e),
                                   kn1, s.nm, lk3, "ok")

\* KNSpaceBehavior.__exchange_nspace(new_knspace) on entity e
ExchangeNspaceOp(s, e, new_knspace) ==
    LET lastns == s.lk[e]
        lk1 == [s.lk EXCEPT ![e] = new_knspace]
        name == s.nm[e]
    IN  IF lastns = new_knspace THEN Out(s.k, s.kn, s.nm, s.lk, "ok")
        ELSE IF name = "" THEN Out(s.k, s.kn, s.nm, lk1, "ok")
        ELSE LET k1 == IF new_knspace # NoNS
                       THEN SetAttr(s.k, new_knspace, name, e) ELSE s.k
                 \* getattr(last, name); None has no attribute of these names
                 got == IF lastns = NoNS THEN AttributeError
                        ELSE GetAttr(k1, lastns, name)
             IN  IF got \in {AttributeError, KeyError}
                 THEN Out(k1, s.kn, s.nm, lk1, got)
                 ELSE IF got = e
                 THEN Out(SetAttr(k1, lastns, name, None), s.kn, s.nm, lk1, "ok")
                 ELSE Out(k1, s.kn, s.nm, lk1, "ok")

\* ----------------------------------------------------------- the machine
Occupant(k, ns, name) ==
    IF ns = NoNS \/ name = "" THEN None ELSE GetAttr(k, ns, name)

\* the record of an operation: its arguments, how it ended, and for an entity
\* operation the namespace the entity resolved to when it was called (ns0),
\* what that namespace returned for the name concerned (occ0), the name the
\* entity had (old) and what ns0 returned for that name (oocc0)
Op(op, who, ns, name, val, err, ns0, occ0) ==
    [op |-> op, who |-> who, ns |-> ns, name |-> name, val |-> val,
     err |-> err, ns0 |-> ns0, occ0 |-> occ0,
     old |-> IF who \in Ent THEN _name[who] ELSE "",
     oocc0 |-> IF who \in Ent THEN Occupant(K, ns0, _name[who]) ELSE None]

Install(k) ==
    /\ nextns' = k.next
    /\ nsparent' = k.par
    /\ has_applied' = k.ha
    /\ clsprops' = k.cls
    /\ storage' = k.st
    /\ nsdict' = k.dict
    /\ napplied' = k.napp

Init ==
    /\ nextns = 1
    /\ nsparent = [n \in NS |-> NoNS]
    /\ has_applied = [n \in NS |-> {}]
    /\ clsprops = [n \in Names |-> NoProp]
    /\ storage = [n \in NS |-> [m \in Names |-> Unlinked]]
    /\ nsdict = [n \in NS |-> [m \in Names |-> Absent]]
    /\ _knspace = [e \in Ent |-> NoNS]
    /\ _name = [e \in Ent |-> ""]
    /\ knspace_key = [e \in Ent |-> "parent"]
    /\ last_knspace = [e \in Ent |-> NoNS]
    /\ parent = [x \in Objs |-> IF x = "o2" THEN "o3" ELSE None]
    /\ napplied = [n \in NS |-> [m \in Names |-> 0]]
    /\ last = Op("init", None, NoNS, "", None, "ok", NoNS, None)
    /\ nops = 0

\* one more operation of the run
Tick == nops < MaxOps /\ nops' = nops + 1

\* entity.name = value
SetName(e, value) ==
    LET r == SetNameOp(S, e, value)
    IN  /\ Install(r.k)
        /\ _name' = r.nm
        /\ _knspace' = r.kn
        /\ last_knspace' = r.lk
        /\ last' = Op("setName", e, NoNS, value, None, r.err,
                      KnspaceOf(_knspace, e),
                      Occupant(K, KnspaceOf(_knspace, e), value))
        /\ UNCHANGED <<knspace_key, parent>>

\* entity.knspace = value (a namespace, None or 'clone')
SetKnspace(e, value) ==
    /\ value = CloneTok => nextns <= MaxClones
    /\ LET r == SetKnspaceOp(S, e, value)
       IN  /\ Install(r.k)
           /\ _name' = r.nm
           /\ _knspace' = r.kn
           /\ last_knspace' = r.lk
           /\ last' = Op("setKnspace", e, value, _name[e], None, r.err,
                         KnspaceOf(_knspace, e),
                         Occupant(K, KnspaceOf(_knspace, e), _name[e]))
    /\ UNCHANGED <<knspace_key, parent>>

\* a read of entity.knspace
ReadKnspace(e) ==
    /\ last_knspace' = ReadCache(_knspace, last_knspace, e)
    /\ last' = Op("readKnspace", e, KnspaceOf(_knspace, e), "", None, "ok",
                  KnspaceOf(_knspace, e), None)
    /\ UNCHANGED <<nextns, nsparent, has_applied, clsprops, storage, nsdict,
                   _knspace, _name, knspace_key, parent, napplied>>

\* entity.knspace_key = key
SetKnspaceKey(e, key) ==
    /\ key # knspace_key[e]
    /\ knspace_key' = [knspace_key EXCEPT ![e] = key]
    /\ last' = Op("setKey", e, NoNS, key, None, "ok",
                  KnspaceOf(_knspace, e), None)
    /\ UNCHANGED <<nextns, nsparent, has_applied, clsprops, storage, nsdict,
                   _knspace, _name, last_knspace, parent, napplied>>

RECURSIVE Ancestors(_, _)
Ancestors(par, x) ==
    IF par[x] = None THEN {} ELSE {par[x]} \cup Ancestors(par, par[x])

\* x.parent = p: the widget tree moves x under p (or detaches it)
Reparent(x, p) ==
    /\ p # parent[x]
    /\ p # x
    /\ p # None => x \notin Ancestors(parent, p)
    /\ parent' = [parent EXCEPT ![x] = p]
    /\ last' = Op("reparent", x, NoNS, "", p, "ok",
                  IF x \in Ent THEN KnspaceOf(_knspace, x) ELSE NoNS,
                  IF x \in Ent
                  THEN Occupant(K, KnspaceOf(_knspace, x), _name[x]) ELSE None)
    /\ UNCHANGED <<nextns, nsparent, has_applied, clsprops, storage, nsdict,
                   _knspace, _name, knspace_key, last_knspace, napplied>>

\* setattr(ns, name, val) by any holder of the namespace
NsSet(ns, name, val) ==
    /\ Install(SetAttr(K, ns, name, val))
    /\ last' = Op("set", None, ns, name, val, "ok", ns, GetAttr(K, ns, name))
    /\ UNCHANGED <<_knspace, _name, knspace_key, last_knspace, parent>>

\* ns.clone()
NsClone(ns) ==
    /\ nextns <= MaxClones
    /\ Install(CloneNS(K, ns))
    /\ last' = Op("clone", None, ns, "", None, "ok", NoNS, None)
    /\ UNCHANGED <<_knspace, _name, knspace_key, last_knspace, parent>>

\* ns.property(name)
NsProperty(ns, name) ==
    /\ Install(Property(K, ns, name))
    /\ last' = Op("property", None, ns, name, None, "ok", NoNS, None)
    /\ UNCHANGED <<_knspace, _name, knspace_key, last_knspace, parent>>

Next ==
    \/ \E e \in Ent, n \in Names \cup {""} : Tick /\ SetName(e, n)
    \/ \E e \in Ent, v \in Spaces(K) \cup {NoNS, CloneTok} :
          Tick /\ SetKnspace(e, v)
    \/ \E e \in Ent : Tick /\ ReadKnspace(e)
    \/ \E e \in Ent, key \in Keys : Tick /\ SetKnspaceKey(e, key)
    \/ \E x \in Movable, p \in Objs \cup {None} : Tick /\ Reparent(x, p)
    \/ \E ns \in Spaces(K), n \in Names, v \in Vals : Tick /\ NsSet(ns, n, v)
    \/ \E ns \in Spaces(K) : Tick /\ NsClone(ns)
    \/ \E ns \in Spaces(K), n \in Names : Tick /\ NsProperty(ns, n)

Spec == Init /\ [][Next]_vars

\* ------------------------- the entity operations alone: name, knspace, tree
NextEntities ==
    \/ \E e \in Ent, n \in Names \cup {""} : Tick /\ SetName(e, n)
    \/ \E e \in Ent, v \in Spaces(K) \cup {NoNS, CloneTok} :
          Tick /\ SetKnspace(e, v)
    \/ \E x \in Movable, p \in Objs \cup {None} : Tick /\ Reparent(x, p)

SpecEntities == Init /\ [][NextEntities]_vars

\* ------------------------------------- __exchange_nspace, were it called
\* entity._KNSpaceBehavior__exchange_nspace(new_knspace)
ExchangeNspace(e, new_knspace) ==
    LET r == ExchangeNspaceOp(S, e, new_knspace)
    IN  /\ Install(r.k)
        /\ _name' = r.nm
        /\ _knspace' = r.kn
        /\ last_knspace' = r.lk
        /\ last' = Op("exchange", e, new_knspace, _name[e], None, r.err,
                      last_knspace[e],
                      Occupant(K, last_knspace[e], _name[e]))
        /\ UNCHANGED <<knspace_key, parent>>

NextExchange ==
    \/ \E e \in Ent, n \in Names \cup {""} : Tick /\ SetName(e, n)
    \/ \E e \in Ent, v \in Spaces(K) \cup {NoNS, CloneTok} :
          Tick /\ SetKnspace(e, v)
    \/ \E x \in Movable, p \in Objs \cup {None} : Tick /\ Reparent(x, p)
    \/ \E e \in Ent : Tick /\ ReadKnspace(e)
    \/ \E e \in Ent, v \in Spaces(K) \cup {NoNS} : Tick /\ ExchangeNspace(e, v)

SpecExchange == Init /\ [][NextExchange]_vars

\* ------------------------------------------- resolution over every tree
RECURSIVE Up(_, _, _)
\* the object n parent steps above x, None once the chain has ended
Up(f, x, n) == IF n = 0 \/ x = None THEN x ELSE Up(f, f[x], n - 1)

\* the parent attributes form a forest
IsTree(f) == \A x \in Objs : Up(f, x, Cardinality(Objs)) = None

\* every tree of the objects, every explicit namespace among the existing
\* ones and every knspace_key, before any name is given
InitResolve ==
    /\ nextns = MaxClones + 1
    /\ nsparent = [n \in NS |-> IF n = Root THEN NoNS ELSE Root]
    /\ has_applied = [n \in NS |-> {}]
    /\ clsprops = [n \in Names |-> NoProp]
    /\ storage = [n \in NS |-> [m \in Names |-> Unlinked]]
    /\ nsdict = [n \in NS |-> [m \in Names |-> Absent]]
    /\ _knspace \in [Ent -> NS \cup {NoNS}]
    /\ _name = [e \in Ent |-> ""]
    /\ knspace_key \in [Ent -> Keys]
    /\ last_knspace = [e \in Ent |-> NoNS]
    /\ parent \in {f \in [Objs -> Objs \cup {None}] : IsTree(f)}
    /\ napplied = [n \in NS |-> [m \in Names |-> 0]]
    /\ last = Op("init", None, NoNS, "", None, "ok", NoNS, None)
    /\ nops = 0

NextResolve == \E e \in Ent : ReadKnspace(e) /\ UNCHANGED nops

SpecResolve == InitResolve /\ [][NextResolve]_vars

\* ============================================================ properties

\* C1: for an entity E that resolves to a namespace N and a non-empty name n,
\* right after E.name = n the lookup N.n returns E, whoever held n before;
\* no other entity's name or explicit namespace is touched by the call.
C1_SetNameRegisters ==
    [][(last'.op = "setName" /\ last'.name # "" /\ last'.ns0 # NoNS) =>
         /\ last'.err = "ok"
         /\ GetAttr(K', last'.ns0, last'.name) = last'.who
         /\ \A x \in Ent \ {last'.who} :
               _name'[x] = _name[x] /\ _knspace'[x] = _knspace[x]]_vars

\* C1 happens: E took a name that another entity, still so named, occupied
C1_Witness ==
    /\ last.op = "setName" /\ last.name # "" /\ last.ns0 # NoNS
    /\ last.occ0 \in Ent \ {last.who}
    /\ _name[last.occ0] = last.name
    /\ GetAttr(K, last.ns0, last.name) = last.who

\* C2: E1 and E2 carry the same name n in the same namespace N and N.n is
\* E2; clearing E1's name (E1.name = '') leaves N.n = E2.
C2_ClearKeepsOther ==
    [][\A e1 \in Ent : \A e2 \in Ent \ {e1} :
         LET N == KnspaceOf(_knspace, e1)
             n == _name[e1]
         IN  (/\ n # "" /\ _name[e2] = n
              /\ N # NoNS /\ KnspaceOf(_knspace, e2) = N
              /\ GetAttr(K, N, n) = e2
              /\ last'.op = "setName" /\ last'.who = e1 /\ last'.name = "")
             => GetAttr(K', N, n) = e2]_vars

\* C3: renaming E from n1 to another non-empty name n2 while it resolves to N
\* leaves N.n1 bound to nothing when E occupied n1, and N.n2 = E.
C3_Rename ==
    (/\ last.op = "setName" /\ last.ns0 # NoNS
     /\ last.old # "" /\ last.name # "" /\ last.old # last.name)
    => /\ last.oocc0 = last.who => GetAttr(K, last.ns0, last.old) = None
       /\ GetAttr(K, last.ns0, last.name) = last.who

\* C3 happens: E, the occupant of n1, was renamed to n2
C3_Witness ==
    /\ last.op = "setName" /\ last.ns0 # NoNS
    /\ last.old # "" /\ last.name # "" /\ last.old # last.name
    /\ last.oocc0 = last.who
    /\ GetAttr(K, last.ns0, last.old) = None
    /\ GetAttr(K, last.ns0, last.name) = last.who

\* the namespace an entity resolves to in the current state
Resolved(e) == KnspaceOf(_knspace, e)

\* name was never set on ns nor asked of it as a property
NeverUsed(ns, name) == name \notin has_applied[ns] /\ nsdict[ns][name] = Absent

RECURSIVE NsChain(_)
\* ns and the namespaces of its parent chain
NsChain(ns) == IF ns = NoNS THEN {} ELSE {ns} \cup NsChain(nsparent[ns])

\* C4: for a clone C of N, C.parent is N, and for every (ordinary) name never
\* set on C the lookup C.name gives what N.name gives at that moment; it fails
\* with AttributeError when no namespace of C's parent chain has set the name.
C4_CloneFollowsParent ==
    \A c \in Spaces(K) : \A n \in Names \ PlainAttrs :
        (nsparent[c] # NoNS /\ NeverUsed(c, n)) =>
            /\ GetAttr(K, c, n) = GetAttr(K, nsparent[c], n)
            /\ (\A m \in NsChain(c) : NeverUsed(m, n)) =>
                   GetAttr(K, c, n) = AttributeError

\* C5: a set on a clone B of R is local to B: B.n returns the value set, R.n
\* gives what it gave before (still AttributeError if it failed), and clone()
\* changes no lookup of any existing namespace.
C5_SetIsLocal ==
    [][/\ (last'.op = "set" /\ nsparent[last'.ns] # NoNS) =>
            /\ GetAttr(K', last'.ns, last'.name) = last'.val
            /\ GetAttr(K', nsparent[last'.ns], last'.name) =
                   GetAttr(K, nsparent[last'.ns], last'.name)
       /\ last'.op = "clone" =>
            \A m \in Spaces(K) : \A n \in Names :
                GetAttr(K', m, n) = GetAttr(K, m, n)]_vars

\* an object of the tree that has a knspace attribute
Exposes(p) == p \in Ent \/ objknspace[p] # NoAttr

\* the value of that attribute
ExposedKnspace(p) == IF p \in Ent THEN Resolved(p) ELSE objknspace[p]

\* C6: an entity resolves to its explicit override when one is set; else to
\* the root when its knspace_key is empty; else to the knspace of the nearest
\* object of its parent chain that has one; else to the root.
C6_ResolveOrder ==
    \A e \in Ent :
        LET exp == {p \in Ancestors(parent, e) : Exposes(p)}
        IN  /\ _knspace[e] # NoNS => Resolved(e) = _knspace[e]
            /\ (_knspace[e] = NoNS /\ knspace_key[e] = "") => Resolved(e) = Root
            /\ (_knspace[e] = NoNS /\ knspace_key[e] # "" /\ exp # {}) =>
                   \E p \in exp :
                       /\ \A q \in exp \ {p} : q \in Ancestors(parent, p)
                       /\ Resolved(e) = ExposedKnspace(p)
            /\ (_knspace[e] = NoNS /\ knspace_key[e] # "" /\ exp = {}) =>
                   Resolved(e) = Root

\* C6 happens: an entity without override inherits a namespace other than
\* the root from an exposing ancestor that is not its direct parent, and
\* another entity falls through to the root
C6_Witness ==
    \E e \in Ent : \E f \in Ent \ {e} :
        /\ _knspace[e] = NoNS /\ knspace_key[e] # ""
        /\ parent[e] \in Plain /\ ~Exposes(parent[e])
        /\ parent[parent[e]] = f
        /\ _knspace[f] \notin {NoNS, Root}
        /\ Resolved(e) = _knspace[f]
        /\ last.op = "readKnspace" /\ last.who = e /\ last.ns = _knspace[f]

\* C7: a named entity without override, registered under w in the namespace
\* N it inherits from an ancestor, is moved under another ancestor through
\* which it resolves to M: with the move N.w is cleared and M.w is the entity.
C7_ReparentMoves ==
    [][\A e \in Ent :
         (/\ last'.op = "reparent" /\ last'.who = e
          /\ parent[e] # None /\ parent'[e] # None
          /\ _knspace[e] = NoNS /\ _name[e] # ""
          /\ last'.ns0 # NoNS /\ last'.oocc0 = e
          /\ ~NeverUsed(last'.ns0, _name[e])
          /\ Resolved(e)' \notin {NoNS, last'.ns0})
         => /\ GetAttr(K', Resolved(e)', _name[e]) = e
            /\ GetAttr(K', last'.ns0, _name[e]) # e]_vars

\* C8: the knspace setter of a named entity leaves the binding of its name in
\* the old namespace alone when another entity occupies it.
C8_SetKnspaceSparesOther ==
    (/\ last.op = "setKnspace" /\ last.old # "" /\ last.ns0 # NoNS
     /\ last.oocc0 \in Ent \ {last.who}
     /\ Resolved(last.who) # last.ns0)
    => GetAttr(K, last.ns0, last.old) = last.oocc0

\* C9 as stated: after a successful E.knspace = V (a namespace or None) on
\* an entity named n that occupied n in the namespace P it resolved to, the
\* override and the cached namespace are V, the namespace E resolves to
\* returns E for n, and P, when E no longer resolves to it, does not.
C9_AsStated ==
    (/\ last.op = "setKnspace" /\ last.err = "ok" /\ last.ns # CloneTok
     /\ last.old # "" /\ last.ns0 # NoNS /\ last.oocc0 = last.who)
    => /\ _knspace[last.who] = last.ns
       /\ last_knspace[last.who] = last.ns
       /\ GetAttr(K, Resolved(last.who), last.old) = last.who
       /\ Resolved(last.who) # last.ns0 =>
              GetAttr(K, last.ns0, last.old) # last.who

\* C9 amended: the override is V and the cached namespace is the namespace E
\* now resolves to, which is V when V is a namespace and the inherited or
\* root namespace when V is None; the rest as stated.
C9_SetKnspaceState ==
    (/\ last.op = "setKnspace" /\ last.err = "ok" /\ last.ns # CloneTok
     /\ last.old # "" /\ last.ns0 # NoNS /\ last.oocc0 = last.who)
    => /\ _knspace[last.who] = last.ns
       /\ last_knspace[last.who] = Resolved(last.who)
       /\ last.ns # NoNS => last_knspace[last.who] = last.ns
       /\ GetAttr(K, Resolved(last.who), last.old) = last.who
       /\ Resolved(last.who) # last.ns0 =>
              GetAttr(K, last.ns0, last.old) # last.who

\* C9 happens: a named occupant of P was given None as its namespace, and
\* resolves to another namespace than P through its parent chain
C9_Witness ==
    /\ last.op = "setKnspace" /\ last.err = "ok" /\ last.ns = NoNS
    /\ last.old # "" /\ last.ns0 # NoNS /\ last.oocc0 = last.who
    /\ Resolved(last.who) # last.ns0
    /\ last_knspace[last.who] = Resolved(last.who)
    /\ GetAttr(K, Resolved(last.who), last.old) = last.who
    /\ GetAttr(K, last.ns0, last.old) = None

C11_NamedHasNamespace ==
    \A e \in Ent : _name[e] # "" => Resolved(e) # NoNS

\* C12: a name or knspace assignment that raises leaves the entity's name,
\* explicit namespace and cached namespace, and what every namespace returns
\* for every name, as they were before the call.
C12_FailureChangesNothing ==
    [][(last'.op \in {"setName", "setKnspace"} /\ last'.err # "ok") =>
         /\ _name' = _name
         /\ _knspace' = _knspace
         /\ last_knspace' = last_knspace
         /\ nextns' = nextns
         /\ \A ns \in Spaces(K) : \A n \in Names :
                GetAttr(K', ns, n) = GetAttr(K, ns, n)]_vars

\* C13: no namespace holds an entity by the entity itself: whatever path of
\* __setattr__ stored it, the reference kept for a name is the proxy_ref.
C13_NonOwning ==
    \A ns \in Spaces(K) : \A n \in Names : ~Owning(K, ns, n)

\* C14: once a name has been used on a namespace C, setting it to None makes
\* C return None for it, whatever C's parent holds, and C goes on returning
\* None while other namespaces, the parent among them, are assigned to.
C14_ClearedIsLocal ==
    [][/\ (last'.op = "set" /\ last'.val = None
            /\ ~NeverUsed(last'.ns, last'.name)) =>
              GetAttr(K', last'.ns, last'.name) = None
       /\ \A c \in Spaces(K) : \A n \in Names :
              (/\ ~NeverUsed(c, n) /\ GetAttr(K, c, n) = None
               /\ last'.op = "set" /\ last'.ns # c) =>
              GetAttr(K', c, n) = None]_vars

\* C14 happens: a clone held an entity of its own for a name, its parent holds
\* another one, and the clone's name was set to None
C14_Witness ==
    /\ last.op = "set" /\ last.val = None
    /\ nsparent[last.ns] # NoNS
    /\ last.occ0 \in Ent /\ last.occ0 # clsprops[last.name]
    /\ GetAttr(K, nsparent[last.ns], last.name) \in Ent
    /\ GetAttr(K, last.ns, last.name) = None

\* C15: for an entity without override and with a knspace_key, the walk ends
\* at the nearest object of the parent chain that has a knspace attribute and
\* returns its value, None included: the root is not put in its place and no
\* farther object is asked; objects without the attribute are passed over.
C15_WalkStopsAtFirst ==
    \A e \in Ent : \A p \in Ancestors(parent, e) :
        (/\ _knspace[e] = NoNS /\ knspace_key[e] # ""
         /\ Exposes(p)
         /\ \A q \in Ancestors(parent, e) :
                p \in Ancestors(parent, q) => ~Exposes(q))
        => /\ Resolved(e) = ExposedKnspace(p)
           /\ ExposedKnspace(p) = NoNS => Resolved(e) = NoNS

\* C15 happens: the nearest object with a knspace attribute holds None, an
\* object without the attribute lies between it and the entity, a farther
\* ancestor has a namespace of its own, and the entity's knspace read None
C15_Witness ==
    \E e \in Ent : \E f \in Ent \ {e} :
        /\ _knspace[e] = NoNS /\ knspace_key[e] # ""
        /\ parent[e] = "o1" /\ parent["o1"] = "o2" /\ parent["o2"] = f
        /\ _knspace[f] \notin {NoNS, Root}
        /\ Resolved(e) = NoNS
        /\ last.op = "readKnspace" /\ last.who = e /\ last.ns = NoNS

C17_Exchange ==
    [][last'.op = "exchange" =>
         LET e == last'.who
             new == last'.ns
             prev == last'.ns0
             n == last'.name
         IN  IF new = prev
             THEN UNCHANGED <<nextns, nsparent, has_applied, clsprops, storage,
                              nsdict, _knspace, _name, knspace_key,
                              last_knspace, parent>>
             ELSE /\ last_knspace'[e] = new
                  /\ UNCHANGED <<_knspace, _name>>
                  /\ n = "" => UNCHANGED <<nextns, nsparent, has_applied,
                                           clsprops, storage, nsdict>>
                  /\ n # "" =>
                       /\ last'.err = "ok"
                       /\ new # NoNS => GetAttr(K', new, n) = e
                       /\ (prev # NoNS /\ last'.occ0 = e) =>
                              GetAttr(K', prev, n) = None
                       /\ (prev # NoNS /\ last'.occ0 \in Vals \ {e}) =>
                              GetAttr(K', prev, n) = last'.occ0]_vars

\* C18: when E.knspace is assigned, a named entity F that has no override and
\* takes its namespace P from E through its parent chain, and that P returns
\* for F's name, stays as it was: P still returns F for the name, and the
\* namespace E was given does not return F for it unless it did before.
C18_InheritorsStay ==
    [][\A f \in Ent \ {last'.who} :
         LET e == last'.who
             P == last'.ns0
             m == _name[f]
             V == _knspace'[e]
         IN  (/\ last'.op = "setKnspace" /\ last'.err = "ok"
              /\ _knspace[f] = NoNS /\ knspace_key[f] # ""
              /\ e \in Ancestors(parent, f)
              /\ P # NoNS /\ Resolved(f) = P
              /\ m # "" /\ ~NeverUsed(P, m) /\ GetAttr(K, P, m) = f)
             => /\ GetAttr(K', P, m) = f
                /\ (V \in Spaces(K) /\ V # P /\ GetAttr(K, V, m) # f) =>
                       GetAttr(K', V, m) # f]_vars

\* C19: ns.property(name) leaves what ns returns for name as it was: the same
\* value, or the same failure, as before the call.
C19_PropertyKeepsGet ==
    [][last'.op = "property" =>
         GetAttr(K', last'.ns, last'.name) = GetAttr(K, last'.ns, last'.name)]_vars

\* the (namespace, name) slots that an assignment on the namespace itself has
\* bound to the entity e
Slots(e) ==
    {sl \in Spaces(K) \X Names :
        \/ sl[2] \in has_applied[sl[1]] /\ storage[sl[1]][sl[2]] = e
        \/ nsdict[sl[1]][sl[2]] = e}

\* C20: in every state reached by name, knspace and parent assignments, an
\* entity is bound in at most one slot, and that slot is its current name in
\* the namespace it currently resolves to.
C20_NoStaleBinding ==
    \A e \in Ent :
        /\ Cardinality(Slots(e)) <= 1
        /\ \A sl \in Slots(e) : sl[1] = Resolved(e) /\ sl[2] = _name[e]

====
